---- MODULE Spec2Model ----
(***************************************************************************)
(* Hex grid distance field and scoring engine of prospectivity_tools.      *)
(*                                                                         *)
(* Cells are the tiles of a finite patch of the hexagonal tiling, numbered *)
(* row by row and addressed in axial coordinates.  Distances in metres are *)
(* integers; kernel values, memberships and scores are fixed point numbers *)
(* with denominator One, rounded to nearest after every operation.  The    *)
(* value One stands for exactly 1.0: a kernel yields it only where double  *)
(* precision rounds to 1.0.  The value 0 stands for any magnitude below    *)
(* half a unit.  NaN is a value of its own.                                *)
(***************************************************************************)
EXTENDS Integers, Sequences, FiniteSets, TLC

\* ---------------------------------------------------------------- bounds
PatchW == 3
MaxCells == 3
MaxAllowed == 5
MaxSources == 2
MaxRows == 1
MaxSteps == 3
MaxGeoms == 2
MaxCalls == 2
One == 1000

\* ------------------------------------------------------------ hex tiling
\* a patch of the tiling, three rows of PatchW tiles
Universe == 0 .. (3 * PatchW - 1)

\* the first two rows of the patch
Strip == 0 .. (2 * PatchW - 1)

Col(c) == c % PatchW
Row(c) == c \div PatchW

Abs(x) == IF x < 0 THEN -x ELSE x
Max2(a, b) == IF a >= b THEN a ELSE b
Min2(a, b) == IF a <= b THEN a ELSE b

\* grid distance between two tiles of the tiling (axial coordinates)
HexDist(a, b) ==
    LET dq == Col(b) - Col(a)
        dr == Row(b) - Row(a)
    IN  Max2(Abs(dq), Max2(Abs(dr), Abs(dq + dr)))

\* h3.k_ring(h, k): the tiles within k steps of h, h itself included
k_ring(h, k) == {c \in Universe : HexDist(h, c) <= k}

Range(s) == {s[i] : i \in 1 .. Len(s)}

RECURSIVE SetToSeq(_)
\* the elements of a set of cells in iteration order
SetToSeq(S) ==
    IF S = {} THEN <<>>
    ELSE LET m == CHOOSE x \in S : \A y \in S : x <= y
         IN  <<m>> \o SetToSeq(S \ {m})

\* ------------------------------------------------- hex_step_distances
\* allowed_cells argument: None, or a set of cells
None == [given |-> FALSE, cells |-> {}]
Some(S) == [given |-> TRUE, cells |-> S]

\* Python truth value of `allowed`: None and the empty set are both falsy
Truthy(allowed) == allowed.given /\ allowed.cells # {}

RECURSIVE visit_overwrite(_, _, _, _, _)
visit_overwrite(dist, q, d, nbs, allowed) ==
    IF nbs = <<>> THEN [dist |-> dist, q |-> q]
    ELSE LET nb == Head(nbs) IN
         IF Truthy(allowed) /\ nb \notin allowed.cells
         THEN visit_overwrite(dist, q, d, Tail(nbs), allowed)
         ELSE IF nb \notin DOMAIN dist
         THEN visit_overwrite((nb :> (d + 1)) @@ dist, Append(q, nb), d,
                              Tail(nbs), allowed)
         ELSE visit_overwrite((nb :> (d + 1)) @@ dist, q, d, Tail(nbs), allowed)

RECURSIVE visit_unrestricted(_, _, _, _, _)
visit_unrestricted(dist, q, d, nbs, allowed) ==
    IF nbs = <<>> THEN [dist |-> dist, q |-> q]
    ELSE LET nb == Head(nbs) IN
         IF nb \notin DOMAIN dist
         THEN visit_unrestricted((nb :> (d + 1)) @@ dist, Append(q, nb), d,
                                 Tail(nbs), allowed)
         ELSE visit_unrestricted(dist, q, d, Tail(nbs), allowed)

RECURSIVE visit_requeue(_, _, _, _, _)
visit_requeue(dist, q, d, nbs, allowed) ==
    IF nbs = <<>> THEN [dist |-> dist, q |-> q]
    ELSE LET nb == Head(nbs) IN
         IF Truthy(allowed) /\ nb \notin allowed.cells
         THEN visit_requeue(dist, q, d, Tail(nbs), allowed)
         ELSE IF nb \notin DOMAIN dist
         THEN visit_requeue((nb :> (d + 1)) @@ dist, Append(q, nb), d,
                            Tail(nbs), allowed)
         ELSE IF dist[nb] = d + 1
         THEN visit_requeue(dist, Append(q, nb), d, Tail(nbs), allowed)
         ELSE visit_requeue(dist, q, d, Tail(nbs), allowed)

RECURSIVE visit_appendleft(_, _, _, _, _)
visit_appendleft(dist, q, d, nbs, allowed) ==
    IF nbs = <<>> THEN [dist |-> dist, q |-> q]
    ELSE LET nb == Head(nbs) IN
         IF Truthy(allowed) /\ nb \notin allowed.cells
         THEN visit_appendleft(dist, q, d, Tail(nbs), allowed)
         ELSE IF nb \notin DOMAIN dist
         THEN visit_appendleft((nb :> (d + 1)) @@ dist, <<nb>> \o q, d,
                               Tail(nbs), allowed)
         ELSE visit_appendleft(dist, q, d, Tail(nbs), allowed)

RECURSIVE visit(_, _, _, _, _)
\* the for loop over the neighbours nbs of the popped cell, whose distance is d
visit(dist, q, d, nbs, allowed) ==
    IF nbs = <<>> THEN [dist |-> dist, q |-> q]
    ELSE LET nb == Head(nbs) IN
         IF Truthy(allowed) /\ nb \notin allowed.cells
         THEN visit(dist, q, d, Tail(nbs), allowed)
         ELSE IF nb \notin DOMAIN dist
         THEN visit((nb :> (d + 1)) @@ dist, Append(q, nb), d, Tail(nbs), allowed)
         ELSE visit(dist, q, d, Tail(nbs), allowed)

\* h3.k_ring(h, 1) for every cell h of the patch, as the for loop walks it
ring == [h \in Universe |-> SetToSeq(k_ring(h, 1))]

bfs_step_peek(dist, q, allowed) ==
    LET h == Head(q)
        d == dist[h]
    IN  visit(dist, q, d, ring[h], allowed)

\* one iteration of `while q`: pop the head and visit its neighbours
bfs_step(dist, q, allowed) ==
    LET h == Head(q)
        d == dist[h]
    IN  visit(dist, Tail(q), d, ring[h], allowed)

RECURSIVE bfs_loop(_, _, _)
bfs_loop(dist, q, allowed) ==
    IF q = <<>> THEN dist
    ELSE LET s == bfs_step(dist, q, allowed)
         IN  bfs_loop(s.dist, s.q, allowed)

\* the position of each source in the list
seed_enumerated(sources) ==
    [h \in Range(sources) |-> (CHOOSE i \in 1 .. Len(sources) : sources[i] = h) - 1]

\* dist = {h: 0 for h in sources}
seed(sources) == [h \in Range(sources) |-> 0]

hex_step_distances(sources, allowed_cells) ==
    bfs_loop(seed(sources), sources, allowed_cells)

\* ------------------------------------------------------- arithmetic
NaN == -1
IsNaN(x) == x = NaN

\* a / b rounded to nearest, for a >= 0 and b > 0
RDiv(a, b) == (2 * a + b) \div (2 * b)

\* magnitudes above Sat all have a kernel value that rounds to 0
Sat == 30 * One

\* the quotient d / d0 of two lengths in metres
FDiv(d, d0) == IF IsNaN(d) THEN NaN ELSE Min2(RDiv(d * One, d0), Sat)

\* the product of two non-negative fixed point numbers
FMul(a, b) ==
    IF IsNaN(a) \/ IsNaN(b) THEN NaN
    ELSE Min2(RDiv(Min2(a, Sat) * Min2(b, Sat), One), Sat)

RECURSIVE FPow(_, _)
\* x ** n for a whole exponent n >= 1
FPow(x, n) == IF n <= 1 THEN x ELSE FMul(x, FPow(x, n - 1))

\* e^-1
EInv == RDiv(One * 1000, 2718)

RECURSIVE EInvPow(_)
EInvPow(k) == IF k = 0 THEN One ELSE FMul(EInv, EInvPow(k - 1))

\* exp(-f) for 0 <= f < 1, by the first seven terms of the series
ExpSeries(f) ==
    LET t6 == One - RDiv(f, 6)
        t5 == One - RDiv(FMul(f, t6), 5)
        t4 == One - RDiv(FMul(f, t5), 4)
        t3 == One - RDiv(FMul(f, t4), 3)
        t2 == One - RDiv(FMul(f, t3), 2)
    IN  One - FMul(f, t2)

\* np.exp(-y) for y >= 0, accurate to a unit in the last place
ExpNeg(y) ==
    IF IsNaN(y) THEN NaN
    ELSE IF y >= Sat THEN 0
    ELSE FMul(EInvPow(y \div One), ExpSeries(y % One))

\* np.clip(v, lo, hi)
clip(v, lo, hi) == Max2(lo, Min2(v, hi))

\* ------------------------------------------------------------- score.py
\* 2 ** (54 / alpha), rounded up: exp(-(d / d0) ** alpha) is exactly 1.0 in
\* double precision when (d / d0) ** alpha <= 2 ** -54, that is when
\* d * UlpRoot(alpha) <= d0 (lengths stay below 2 ** 30 metres)
UlpRoot(alpha) ==
    CASE alpha >= 4 -> 11586
      [] alpha = 3 -> 262144
      [] alpha = 2 -> 134217728
      [] OTHER -> 1073741824

\* whether (d / d0) ** alpha is so small that 1 - (d / d0) ** alpha rounds to 1.0
BelowHalfUlp(d, d0_m, alpha) == d <= d0_m \div UlpRoot(alpha)

gaussian(d, d0_m, alpha) ==
    IF IsNaN(d) THEN NaN
    ELSE IF BelowHalfUlp(d, d0_m, alpha) THEN One
    ELSE Min2(One - 1, ExpNeg(FPow(FDiv(d, d0_m), alpha)))

linear_noclip(d, d0_m) ==
    IF IsNaN(d) THEN NaN
    ELSE IF BelowHalfUlp(d, d0_m, 1) THEN One
    ELSE Min2(One - 1, One - FDiv(d, d0_m))

linear(d, d0_m) ==
    IF IsNaN(d) THEN NaN
    ELSE IF BelowHalfUlp(d, d0_m, 1) THEN One
    ELSE clip(Min2(One - 1, One - FDiv(d, d0_m)), 0, One)

\* ------------------------------------------------------------ variables
VARIABLES
    settings,       \* the configuration singleton of config.py
    grid,           \* the table build_grid returned
    df,             \* the table add_distance_columns returned
    scored,         \* the table compute_likelihood returned
    err,            \* the exception that ended the run, or "none"
    pc,             \* the pipeline's position
    sources,        \* hex_step_distances: the sources argument
    allowed_cells,  \* hex_step_distances: the allowed_cells argument
    dist,           \* hex_step_distances: the distance map
    q,              \* hex_step_distances: the FIFO queue
    bpc,            \* hex_step_distances: position in the function
    kernel_in,      \* gaussian, linear: the arguments of a call
    kernel_out,     \* gaussian, linear: the values returned
    cache,          \* the files of CACHE_DIR, by tag and resolution
    call,           \* polys_to_h3, build_grid: the last call and its result
    loop,           \* hex_step_distances: the for loop over the neighbours
    run_b,          \* add_distance_columns: the search for rock type B
    cli,            \* main: position, options, steps started, exit status
    enqueued,       \* hex_step_distances: the appends to q, cell by cell
    legacy,         \* src/cli.py main: options, files, steps started, outcome
    mem             \* the tables in memory and the references held to them

vars == <<settings, grid, df, scored, err, pc,
          sources, allowed_cells, dist, q, bpc, kernel_in, kernel_out,
          cache, call, loop, run_b, cli, enqueued, legacy, mem>>

pipeVars == <<settings, grid, df, scored, err, pc>>
bfsVars == <<sources, allowed_cells, dist, q, bpc>>
kernelVars == <<kernel_in, kernel_out>>
indexVars == <<cache, call>>
moreVars == <<enqueued, legacy, mem>>
extVars == <<cache, call, loop, run_b, cli, enqueued, legacy, mem>>

\* ------------------------------------------------------------ config.py
Resolutions == {7, 14}
Falloffs == {1, 100}
Alphas == {2}
Weights == {One}

\* the values Settings accepts: falloff_km > 0, alpha > 0, 0 <= weight_a <= 1
Configs ==
    [resolution : Resolutions, falloff_km : Falloffs, alpha : Alphas,
     weight_a : Weights]

\* --------------------------------------------------------------- tables
NoTable == [columns |-> <<>>, rows |-> <<>>, res |-> 0]

GridColumns == <<"h3_id", "intersects_a", "intersects_b">>

\* a grid as build_grid returns it: unique cells, two flags each
GridOf(G, A, B, res) ==
    LET ids == SetToSeq(G)
    IN  [columns |-> GridColumns,
         rows |-> [i \in 1 .. Len(ids) |->
                     [h3_id |-> ids[i],
                      intersects_a |-> ids[i] \in A,
                      intersects_b |-> ids[i] \in B]],
         res |-> res]

\* the cell sets a grid may cover
CellSets == {X \in SUBSET Strip : Cardinality(X) <= MaxCells}

\* ---------------------------------------------------------- distance.py
\* h3.edge_length(res, "m"), in whole metres
edge_length(res) ==
    CASE res = 7 -> 1221
      [] res = 8 -> 461
      [] res = 9 -> 174
      [] res = 10 -> 66
      [] res = 11 -> 25
      [] res = 12 -> 9
      [] res = 13 -> 4
      [] res = 14 -> 1
      [] OTHER -> 1

\* math.sqrt(3), in thousandths
Sqrt3Milli == 1732

step_metres_edge(res) == edge_length(res)

\* step_m = edge_m * math.sqrt(3), the centre-to-centre distance
step_metres(res) == RDiv(edge_length(res) * Sqrt3Milli, 1000)

get_zero(steps, h, default) == IF h \in DOMAIN steps THEN steps[h] ELSE 0

\* steps.get(h, math.nan)
get(steps, h, default) == IF h \in DOMAIN steps THEN steps[h] ELSE default

Metres_falsy(steps, step_m) ==
    IF IsNaN(steps) \/ steps = 0 THEN NaN ELSE steps * step_m

\* steps * step_m, where steps may be NaN
Metres(steps, step_m) == IF IsNaN(steps) THEN NaN ELSE steps * step_m

\* df.index[df[flag]].tolist()
SourcesOf(rows, flag) ==
    LET sel == SelectSeq(rows, LAMBDA r : r[flag])
    IN  [i \in 1 .. Len(sel) |-> sel[i].h3_id]

add_distance_columns(g) ==
    IF g.rows = <<>> THEN g
    ELSE
    LET sources_a == SourcesOf(g.rows, "intersects_a")
        sources_b == SourcesOf(g.rows, "intersects_b")
        grid_cells == {g.rows[i].h3_id : i \in 1 .. Len(g.rows)}
        steps_a == hex_step_distances(sources_a, Some(grid_cells))
        steps_b == hex_step_distances(sources_b, Some(grid_cells))
        step_m == step_metres(g.res)
    IN  [columns |-> g.columns \o <<"dist_a", "dist_b">>,
         rows |-> [i \in 1 .. Len(g.rows) |->
                     [h3_id |-> g.rows[i].h3_id,
                      intersects_a |-> g.rows[i].intersects_a,
                      intersects_b |-> g.rows[i].intersects_b,
                      dist_a |-> Metres(get(steps_a, g.rows[i].h3_id, NaN), step_m),
                      dist_b |-> Metres(get(steps_b, g.rows[i].h3_id, NaN), step_m)]],
         res |-> g.res]

\* ------------------------------------------------------------- score.py
\* whether df["dist_a"] and df["dist_b"] exist
HasDistances(t) == {"dist_a", "dist_b"} \subseteq Range(t.columns)

\* the score of the nearest rock type alone
compute_likelihood_nearest(t, cfg) ==
    LET d0_m == cfg.falloff_km * 1000
        nearest(a, b) == IF IsNaN(a) \/ IsNaN(b) THEN NaN ELSE Min2(a, b)
    IN  [columns |-> <<"h3_id", "score", "intersects_a", "intersects_b">>,
         rows |-> [i \in 1 .. Len(t.rows) |->
                     [h3_id |-> t.rows[i].h3_id,
                      score |-> gaussian(nearest(t.rows[i].dist_a, t.rows[i].dist_b),
                                         d0_m, cfg.alpha),
                      intersects_a |-> t.rows[i].intersects_a,
                      intersects_b |-> t.rows[i].intersects_b]],
         res |-> t.res]

compute_likelihood(t, cfg) ==
    LET d0_m == cfg.falloff_km * 1000
        score_a == [i \in 1 .. Len(t.rows) |->
                      gaussian(t.rows[i].dist_a, d0_m, cfg.alpha)]
        score_b == [i \in 1 .. Len(t.rows) |->
                      gaussian(t.rows[i].dist_b, d0_m, cfg.alpha)]
    IN  [columns |-> <<"h3_id", "score", "intersects_a", "intersects_b">>,
         rows |-> [i \in 1 .. Len(t.rows) |->
                     [h3_id |-> t.rows[i].h3_id,
                      score |-> FMul(score_a[i], score_b[i]),
                      intersects_a |-> t.rows[i].intersects_a,
                      intersects_b |-> t.rows[i].intersects_b]],
         res |-> t.res]

\* -------------------------------------------------------- geospatial.py
\* the tag of a cache file
Tags == {"a", "b"}

\* a rectangle [west, east] x [south, north]; tile c has its centre at
\* (2 * Col(c) + 1, 2 * Row(c) + 1) in the units of the rectangle, which are
\* half tiles of the configured resolution
Box(w, e, s, n) == [w |-> w, e |-> e, s |-> s, n |-> n]

\* h3.polyfill_geojson(ring, res): the tiles whose centre lies inside the ring
polyfill_geojson(box, res) ==
    {c \in Universe :
        /\ box.w < 2 * Col(c) + 1 /\ 2 * Col(c) + 1 < box.e
        /\ box.s < 2 * Row(c) + 1 /\ 2 * Row(c) + 1 < box.n}

\* a geometry: its validity, its type and the exterior rings of its parts
Polygon(valid, box) ==
    [is_valid |-> valid, geom_type |-> "Polygon", geoms |-> <<box>>]
MultiPolygon(valid, boxes) ==
    [is_valid |-> valid, geom_type |-> "MultiPolygon", geoms |-> boxes]

\* exterior rings: the first column of the patch, the first two columns, the
\* second column, a sliver that holds no tile centre, a ring of zero area
FirstCol == Box(0, 2, 0, 6)
TwoCols == Box(0, 4, 0, 6)
SecondCol == Box(2, 4, 0, 6)
Sliver == Box(0, 1, 0, 1)
Line == Box(2, 2, 0, 6)

\* the geometries of a polygon set: valid and invalid polygons that overlap,
\* and a multipolygon
Geoms ==
    {Polygon(TRUE, FirstCol), Polygon(TRUE, TwoCols), Polygon(FALSE, TwoCols),
     MultiPolygon(TRUE, <<FirstCol, SecondCol>>)}

RECURSIVE GeomLists(_)
\* the lists of n distinct geometries
GeomLists(n) ==
    IF n = 0 THEN {<<>>}
    ELSE UNION {{Append(s, g) : g \in Geoms \ Range(s)} : s \in GeomLists(n - 1)}

\* the GeoDataFrames polys_to_h3 is called with
Gdfs == UNION {GeomLists(n) : n \in 0 .. MaxGeoms}

\* the GeoDataFrames of a rock type passed to build_grid: no polygon, one
\* polygon, a polygon smaller than a tile, an invalid ring of zero area
Rocks ==
    {<<>>, <<Polygon(TRUE, FirstCol)>>, <<Polygon(TRUE, TwoCols)>>,
     <<Polygon(TRUE, Sliver)>>, <<Polygon(FALSE, Line)>>}

RECURSIVE Flatten(_)
\* the concatenation of a sequence of sequences
Flatten(ss) == IF ss = <<>> THEN <<>> ELSE Head(ss) \o Flatten(Tail(ss))

\* the cells one geometry adds to cell_ids
geom_cells(geom, res) ==
    IF ~geom.is_valid THEN <<>>
    ELSE Flatten([i \in 1 .. Len(geom.geoms) |->
                    SetToSeq(polyfill_geojson(geom.geoms[i], res))])

\* cell_ids after the loop over gdf.geometry
cell_ids(gdf, res) == Flatten([i \in 1 .. Len(gdf) |-> geom_cells(gdf[i], res)])

RECURSIVE unique(_)
\* pd.unique: the first occurrence of every value, in order of appearance
unique(s) ==
    IF s = <<>> THEN <<>>
    ELSE <<Head(s)>> \o unique(SelectSeq(Tail(s), LAMBDA x : x # Head(s)))

\* the series polys_to_h3 computes when no cache file exists
compute_cells(gdf, res) == unique(cell_ids(gdf, res))

\* CACHE_DIR / f"{tag}_r{res}.feather"
cache_file(tag, res) == <<tag, res>>

\* polys_to_h3(gdf, tag) with the files of CACHE_DIR; the series returned
\* and the files left behind
polys_to_h3(gdf, tag, res, files) ==
    LET f == cache_file(tag, res)
    IN  IF f \in DOMAIN files
        THEN [series |-> files[f], files |-> files]
        ELSE LET series == compute_cells(gdf, res)
             IN  [series |-> series, files |-> (f :> series) @@ files]

\* the bounds argument of build_grid when it is omitted
NoBounds == Box(-1, -1, -1, -1)

Min(S) == CHOOSE x \in S : \A y \in S : x <= y
Max(S) == CHOOSE x \in S : \A y \in S : x >= y

\* combined.total_bounds: the extent of all geometries, valid or not
total_bounds(gdf) ==
    LET rings == UNION {Range(gdf[i].geoms) : i \in 1 .. Len(gdf)}
    IN  Box(Min({r.w : r \in rings}), Max({r.e : r \in rings}),
            Min({r.s : r \in rings}), Max({r.n : r \in rings}))

\* the bounding region build_grid fills
region(rock_a, rock_b, bounds) ==
    IF bounds = NoBounds THEN total_bounds(rock_a \o rock_b) ELSE bounds

\* build_grid(rock_a, rock_b, bounds) with the files of CACHE_DIR
build_grid(rock_a, rock_b, bounds, res, files) ==
    LET hexagons == polyfill_geojson(region(rock_a, rock_b, bounds), res)
        a == polys_to_h3(rock_a, "a", res, files)
        b == polys_to_h3(rock_b, "b", res, a.files)
    IN  [grid |-> GridOf(hexagons, Range(a.series), Range(b.series), res),
         files |-> b.files]

\* ------------------------------------------------------------- pipeline
\* no call of polys_to_h3 or build_grid yet
NoCall ==
    [op |-> "none", tag |-> "", gdf |-> <<>>, rock_b |-> <<>>,
     bounds |-> NoBounds, res |-> 0, series |-> <<>>, n |-> 0]

\* outside the for loop of hex_step_distances
NoLoop == [h |-> 0, d |-> 0, nbs |-> {}, reordered |-> FALSE]

\* no second search
NoRun ==
    [sources |-> <<>>, dist |-> <<>>, q |-> <<>>, bpc |-> "idle",
     interleaved |-> FALSE]

\* main is not running
NoCli ==
    [pc |-> "idle", generate_map |-> FALSE, rock_a |-> <<>>, rock_b |-> <<>>,
     log |-> <<>>, failed |-> "none", complete |-> FALSE,
     exited |-> FALSE, status |-> 0]

\* the legacy main is not running
NoLegacy ==
    [pc |-> "idle", overwrite |-> FALSE, skip_existing |-> FALSE,
     parquet |-> FALSE, html |-> FALSE, log |-> <<>>, written |-> {},
     outcome |-> "none"]

\* no table in memory
NoMem ==
    [heap |-> <<>>, arg |-> 0, df |-> 0, ret |-> 0, saved |-> NoTable,
     pc |-> "idle"]

BfsIdle ==
    /\ sources = <<>>
    /\ allowed_cells = None
    /\ dist = <<>>
    /\ q = <<>>
    /\ bpc = "idle"

KernelIdle ==
    /\ kernel_in = [d1 |-> 0, d2 |-> 0, d0_m |-> 1, alpha |-> 1]
    /\ kernel_out = [g1 |-> 0, g2 |-> 0, l1 |-> 0, l2 |-> 0]

IndexIdle ==
    /\ cache = <<>>
    /\ call = NoCall

LoopIdle == loop = NoLoop

PairIdle == run_b = NoRun

CliIdle == cli = NoCli

QueueIdle == enqueued = <<>>

LegacyIdle == legacy = NoLegacy

MemIdle == mem = NoMem

MoreIdle ==
    /\ QueueIdle
    /\ LegacyIdle
    /\ MemIdle

ExtIdle ==
    /\ IndexIdle
    /\ LoopIdle
    /\ PairIdle
    /\ CliIdle
    /\ MoreIdle

Init ==
    /\ settings \in Configs
    /\ \E G \in CellSets : \E A \in SUBSET G : \E B \in SUBSET G :
           grid = GridOf(G, A, B, settings.resolution)
    /\ df = NoTable
    /\ scored = NoTable
    /\ err = "none"
    /\ pc = "grid"
    /\ BfsIdle
    /\ KernelIdle
    /\ ExtIdle

AddDistanceColumns ==
    /\ pc = "grid"
    /\ df' = add_distance_columns(grid)
    /\ pc' = "dist"
    /\ UNCHANGED <<settings, grid, scored, err>>
    /\ UNCHANGED bfsVars
    /\ UNCHANGED kernelVars
    /\ UNCHANGED extVars

ComputeLikelihood ==
    /\ pc = "dist"
    /\ HasDistances(df)
    /\ scored' = compute_likelihood(df, settings)
    /\ pc' = "scored"
    /\ UNCHANGED <<settings, grid, df, err>>
    /\ UNCHANGED bfsVars
    /\ UNCHANGED kernelVars
    /\ UNCHANGED extVars

ComputeLikelihoodKeyError ==
    /\ pc = "dist"
    /\ ~HasDistances(df)
    /\ err' = "KeyError"
    /\ pc' = "failed"
    /\ UNCHANGED <<settings, grid, df, scored>>
    /\ UNCHANGED bfsVars
    /\ UNCHANGED kernelVars
    /\ UNCHANGED extVars

Next ==
    \/ AddDistanceColumns
    \/ ComputeLikelihood
    \/ ComputeLikelihoodKeyError

Spec == Init /\ [][Next]_vars

\* ------------------------------------- hex_step_distances, step by step
PipeIdle ==
    /\ settings = [resolution |-> 7, falloff_km |-> 1, alpha |-> 2, weight_a |-> One]
    /\ grid = NoTable
    /\ df = NoTable
    /\ scored = NoTable
    /\ err = "none"
    /\ pc = "idle"

\* the lists of distinct cells of length n
RECURSIVE Lists(_)
Lists(n) ==
    IF n = 0 THEN {<<>>}
    ELSE {Append(s, c) : s \in Lists(n - 1), c \in Strip}

SourceLists ==
    {s \in UNION {Lists(n) : n \in 0 .. MaxSources} :
        \A i, j \in 1 .. Len(s) : i # j => s[i] # s[j]}

InitBFS ==
    /\ PipeIdle
    /\ KernelIdle
    /\ ExtIdle
    /\ sources \in SourceLists
    /\ allowed_cells \in {None} \cup
           {Some(S) : S \in {X \in SUBSET Strip : Cardinality(X) <= MaxAllowed}}
    /\ dist = <<>>
    /\ q = <<>>
    /\ bpc = "call"

\* lines 34-36: build the distance map and the queue from the sources
BfsSeed ==
    /\ bpc = "call"
    /\ dist' = seed(sources)
    /\ q' = sources
    /\ bpc' = "loop"
    /\ UNCHANGED <<sources, allowed_cells>>
    /\ UNCHANGED pipeVars
    /\ UNCHANGED kernelVars
    /\ UNCHANGED extVars

\* lines 38-46: one iteration of the while loop
BfsPop ==
    /\ bpc = "loop"
    /\ q # <<>>
    /\ LET s == bfs_step(dist, q, allowed_cells)
       IN  /\ dist' = s.dist
           /\ q' = s.q
    /\ UNCHANGED <<sources, allowed_cells, bpc>>
    /\ UNCHANGED pipeVars
    /\ UNCHANGED kernelVars
    /\ UNCHANGED extVars

\* line 47: the queue is empty, return dist
BfsReturn ==
    /\ bpc = "loop"
    /\ q = <<>>
    /\ bpc' = "done"
    /\ UNCHANGED <<sources, allowed_cells, dist, q>>
    /\ UNCHANGED pipeVars
    /\ UNCHANGED kernelVars
    /\ UNCHANGED extVars

NextBFS ==
    \/ BfsSeed
    \/ BfsPop
    \/ BfsReturn

SpecBFS == InitBFS /\ [][NextBFS]_vars

\* ---------------------------- compute_likelihood on a table of distances
ScoreAlphas == {1, 2, 4}
ScoreWeights == {0, One \div 2, One}

ScoreConfigs ==
    [resolution : Resolutions, falloff_km : Falloffs, alpha : ScoreAlphas,
     weight_a : ScoreWeights]

\* the distances add_distance_columns writes at a resolution
DistValues(res) == {NaN} \cup {k * step_metres(res) : k \in 0 .. MaxSteps}

\* a table with the columns add_distance_columns returns
DistTable(da, db, res) ==
    [columns |-> GridColumns \o <<"dist_a", "dist_b">>,
     rows |-> [i \in 1 .. Len(da) |->
                 [h3_id |-> i - 1,
                  intersects_a |-> da[i] = 0,
                  intersects_b |-> db[i] = 0,
                  dist_a |-> da[i],
                  dist_b |-> db[i]]],
     res |-> res]

InitScore ==
    /\ settings \in ScoreConfigs
    /\ grid = NoTable
    /\ \E n \in 1 .. MaxRows :
         \E da \in [1 .. n -> DistValues(settings.resolution)] :
           \E db \in [1 .. n -> DistValues(settings.resolution)] :
             df = DistTable(da, db, settings.resolution)
    /\ scored = NoTable
    /\ err = "none"
    /\ pc = "dist"
    /\ BfsIdle
    /\ KernelIdle
    /\ ExtIdle

NextScore == ComputeLikelihood

SpecScore == InitScore /\ [][NextScore]_vars

\* ------------------------------------------- gaussian and linear, called
KernelD0s == {1000 * f : f \in Falloffs}

\* distances in metres: grid distances, and fractions and multiples of d0
KernelDistances(d0_m) ==
    {k * step_metres(r) : k \in 0 .. MaxSteps, r \in Resolutions}
      \cup {(j * d0_m) \div 4 : j \in 0 .. 8}
      \cup {d0_m - 1, d0_m + 1}

InitKernel ==
    /\ PipeIdle
    /\ BfsIdle
    /\ ExtIdle
    /\ \E d0_m \in KernelD0s : \E alpha \in ScoreAlphas :
         \E d1 \in KernelDistances(d0_m) : \E d2 \in KernelDistances(d0_m) :
           kernel_in = [d1 |-> d1, d2 |-> d2, d0_m |-> d0_m, alpha |-> alpha]
    /\ kernel_out = [g1 |-> NaN, g2 |-> NaN, l1 |-> NaN, l2 |-> NaN]

KernelCall ==
    /\ IsNaN(kernel_out.g1)
    /\ kernel_out' =
         [g1 |-> gaussian(kernel_in.d1, kernel_in.d0_m, kernel_in.alpha),
          g2 |-> gaussian(kernel_in.d2, kernel_in.d0_m, kernel_in.alpha),
          l1 |-> linear(kernel_in.d1, kernel_in.d0_m),
          l2 |-> linear(kernel_in.d2, kernel_in.d0_m)]
    /\ UNCHANGED kernel_in
    /\ UNCHANGED pipeVars
    /\ UNCHANGED bfsVars
    /\ UNCHANGED extVars

NextKernel == KernelCall

SpecKernel == InitKernel /\ [][NextKernel]_vars

\* ------------------------------------- polys_to_h3 and build_grid, called
\* the settings of a run at resolution res
SettingsAt(res) ==
    [resolution |-> res, falloff_km |-> 1, alpha |-> 2, weight_a |-> One]

\* the bounds build_grid is given: none, the whole patch, a box of zero
\* width
BoundsArgs == {NoBounds, Box(0, 2 * PatchW, 0, 6), Line}

InitIndex ==
    /\ \E res \in Resolutions : settings = SettingsAt(res)
    /\ grid = NoTable
    /\ df = NoTable
    /\ scored = NoTable
    /\ err = "none"
    /\ pc = "idle"
    /\ BfsIdle
    /\ KernelIdle
    /\ IndexIdle
    /\ LoopIdle
    /\ PairIdle
    /\ CliIdle
    /\ MoreIdle

\* a call polys_to_h3(gdf, tag)
PolysToH3 ==
    /\ call.n < MaxCalls
    /\ \E gdf \in Gdfs : \E tag \in Tags :
         LET r == polys_to_h3(gdf, tag, settings.resolution, cache)
         IN  /\ cache' = r.files
             /\ call' = [op |-> "polys_to_h3", tag |-> tag, gdf |-> gdf,
                         rock_b |-> <<>>, bounds |-> NoBounds,
                         res |-> settings.resolution, series |-> r.series,
                         n |-> call.n + 1]
    /\ UNCHANGED pipeVars
    /\ UNCHANGED bfsVars
    /\ UNCHANGED kernelVars
    /\ UNCHANGED <<loop, run_b, cli>>
    /\ UNCHANGED moreVars

\* a call build_grid(rock_a, rock_b, bounds); the extent of no geometry at
\* all is not a box, so one of the three arguments gives a region
BuildGrid ==
    /\ call.n < MaxCalls
    /\ \E rock_a \in Rocks : \E rock_b \in Rocks : \E bounds \in BoundsArgs :
         /\ bounds # NoBounds \/ rock_a \o rock_b # <<>>
         /\ LET r == build_grid(rock_a, rock_b, bounds, settings.resolution, cache)
            IN  /\ grid' = r.grid
                /\ cache' = r.files
                /\ call' = [op |-> "build_grid", tag |-> "", gdf |-> rock_a,
                            rock_b |-> rock_b, bounds |-> bounds,
                            res |-> settings.resolution, series |-> <<>>,
                            n |-> call.n + 1]
    /\ UNCHANGED <<settings, df, scored, err, pc>>
    /\ UNCHANGED bfsVars
    /\ UNCHANGED kernelVars
    /\ UNCHANGED <<loop, run_b, cli>>
    /\ UNCHANGED moreVars

\* a later run of the program with another resolution in config.yaml; the
\* files of CACHE_DIR stay
LoadConfig ==
    /\ call.n < MaxCalls
    /\ \E res \in Resolutions \ {settings.resolution} :
         settings' = [settings EXCEPT !.resolution = res]
    /\ UNCHANGED <<grid, df, scored, err, pc>>
    /\ UNCHANGED bfsVars
    /\ UNCHANGED kernelVars
    /\ UNCHANGED extVars

NextIndex ==
    \/ PolysToH3
    \/ LoadConfig

SpecIndex == InitIndex /\ [][NextIndex]_vars

NextGrid == BuildGrid

SpecGrid == InitIndex /\ [][NextGrid]_vars

\* ------------------- hex_step_distances, one neighbour of the ring at a time
\* source lists drawn from the grid G, in any order
InitOrder ==
    /\ PipeIdle
    /\ KernelIdle
    /\ IndexIdle
    /\ PairIdle
    /\ CliIdle
    /\ MoreIdle
    /\ \E G \in CellSets :
         /\ allowed_cells = Some(G)
         /\ sources \in {s \in SourceLists : Range(s) \subseteq G}
    /\ dist = <<>>
    /\ q = <<>>
    /\ bpc = "call"
    /\ loop = NoLoop

\* lines 39-41: pop the head; h3.k_ring returns a set, which the for loop
\* walks in an order of its own
OrderPop ==
    /\ bpc = "loop"
    /\ q # <<>>
    /\ loop' = [loop EXCEPT !.h = Head(q), !.d = dist[Head(q)],
                            !.nbs = k_ring(Head(q), 1)]
    /\ q' = Tail(q)
    /\ bpc' = "for"
    /\ UNCHANGED <<sources, allowed_cells, dist>>
    /\ UNCHANGED pipeVars
    /\ UNCHANGED kernelVars
    /\ UNCHANGED <<cache, call, run_b, cli>>
    /\ UNCHANGED moreVars

\* lines 41-46: the body of the for loop for the next neighbour, any one of
\* those left
OrderVisit ==
    /\ bpc = "for"
    /\ \E nb \in loop.nbs :
         LET s == visit(dist, q, loop.d, <<nb>>, allowed_cells)
         IN  /\ dist' = s.dist
             /\ q' = s.q
             /\ loop' = [loop EXCEPT !.nbs = @ \ {nb},
                                     !.reordered = @ \/ nb # Min(loop.nbs)]
    /\ UNCHANGED <<sources, allowed_cells, bpc>>
    /\ UNCHANGED pipeVars
    /\ UNCHANGED kernelVars
    /\ UNCHANGED <<cache, call, run_b, cli>>
    /\ UNCHANGED moreVars

\* the for loop is exhausted: back to `while q`
OrderEndFor ==
    /\ bpc = "for"
    /\ loop.nbs = {}
    /\ bpc' = "loop"
    /\ UNCHANGED <<sources, allowed_cells, dist, q, loop>>
    /\ UNCHANGED pipeVars
    /\ UNCHANGED kernelVars
    /\ UNCHANGED <<cache, call, run_b, cli>>
    /\ UNCHANGED moreVars

NextOrder ==
    \/ BfsSeed
    \/ OrderPop
    \/ OrderVisit
    \/ OrderEndFor
    \/ BfsReturn

SpecOrder == InitOrder /\ [][NextOrder]_vars

\* ------------------- add_distance_columns, the two searches interleaved
\* lines 88-97: the distance columns, from the two step maps
attach(g, steps_a, steps_b) ==
    LET step_m == step_metres(g.res)
    IN  [columns |-> g.columns \o <<"dist_a", "dist_b">>,
         rows |-> [i \in 1 .. Len(g.rows) |->
                     [h3_id |-> g.rows[i].h3_id,
                      intersects_a |-> g.rows[i].intersects_a,
                      intersects_b |-> g.rows[i].intersects_b,
                      dist_a |-> Metres(get(steps_a, g.rows[i].h3_id, NaN), step_m),
                      dist_b |-> Metres(get(steps_b, g.rows[i].h3_id, NaN), step_m)]],
         res |-> g.res]

run_step_shared(r, other, allowed) ==
    IF r.bpc = "call"
    THEN [r EXCEPT !.dist = seed(r.sources), !.q = r.sources, !.bpc = "loop"]
    ELSE IF r.q = <<>> THEN [r EXCEPT !.bpc = "done"]
    ELSE LET s == bfs_step(r.dist @@ other.dist, r.q, allowed)
         IN  [r EXCEPT !.dist = s.dist, !.q = s.q]

\* the next step of one search: seed, one iteration of the while loop, or
\* return; dist and q are locals of the call, the other search is not read
run_step(r, other, allowed) ==
    IF r.bpc = "call"
    THEN [r EXCEPT !.dist = seed(r.sources), !.q = r.sources, !.bpc = "loop"]
    ELSE IF r.q = <<>> THEN [r EXCEPT !.bpc = "done"]
    ELSE LET s == bfs_step(r.dist, r.q, allowed)
         IN  [r EXCEPT !.dist = s.dist, !.q = s.q]

\* the search for rock type A as a record
run_a == [sources |-> sources, dist |-> dist, q |-> q, bpc |-> bpc]

\* the searches of add_distance_columns on a grid that holds the first tile
\* of the patch
InitPair ==
    /\ settings = SettingsAt(7)
    /\ \E G \in {X \in CellSets : 0 \in X} :
         \E A \in SUBSET G : \E B \in SUBSET G :
           grid = GridOf(G, A, B, settings.resolution)
    /\ df = NoTable
    /\ scored = NoTable
    /\ err = "none"
    /\ pc = "grid"
    /\ sources = SourcesOf(grid.rows, "intersects_a")
    /\ allowed_cells = Some({grid.rows[i].h3_id : i \in 1 .. Len(grid.rows)})
    /\ dist = <<>>
    /\ q = <<>>
    /\ bpc = "call"
    /\ run_b = [NoRun EXCEPT !.sources = SourcesOf(grid.rows, "intersects_b"),
                             !.bpc = "call"]
    /\ KernelIdle
    /\ IndexIdle
    /\ LoopIdle
    /\ CliIdle
    /\ MoreIdle

\* a step of the search for rock type A; the steps interleave when one
\* search steps while the other is inside its while loop
PairStepA ==
    /\ bpc \in {"call", "loop"}
    /\ LET r == run_step(run_a, run_b, allowed_cells)
       IN  /\ dist' = r.dist
           /\ q' = r.q
           /\ bpc' = r.bpc
    /\ run_b' = [run_b EXCEPT !.interleaved = @ \/ run_b.bpc = "loop"]
    /\ UNCHANGED <<sources, allowed_cells>>
    /\ UNCHANGED pipeVars
    /\ UNCHANGED kernelVars
    /\ UNCHANGED <<cache, call, loop, cli>>
    /\ UNCHANGED moreVars

\* a step of the search for rock type B
PairStepB ==
    /\ run_b.bpc \in {"call", "loop"}
    /\ run_b' = [run_step(run_b, run_a, allowed_cells)
                   EXCEPT !.interleaved = @ \/ bpc = "loop"]
    /\ UNCHANGED bfsVars
    /\ UNCHANGED pipeVars
    /\ UNCHANGED kernelVars
    /\ UNCHANGED <<cache, call, loop, cli>>
    /\ UNCHANGED moreVars

\* both searches have returned: attach the columns
PairAttach ==
    /\ pc = "grid"
    /\ bpc = "done"
    /\ run_b.bpc = "done"
    /\ df' = attach(grid, dist, run_b.dist)
    /\ pc' = "dist"
    /\ UNCHANGED <<settings, grid, scored, err>>
    /\ UNCHANGED bfsVars
    /\ UNCHANGED kernelVars
    /\ UNCHANGED extVars

NextPair ==
    \/ PairStepA
    \/ PairStepB
    \/ PairAttach

SpecPair == InitPair /\ [][NextPair]_vars

\* --------------------------- add_distance_columns on a cell and its ring
\* the cells of the patch with all six neighbours in the patch
Centres == {c \in Universe : Cardinality(k_ring(c, 1)) = 7}

InitField ==
    /\ \E res \in Resolutions : settings = SettingsAt(res)
    /\ \E c \in Centres :
         \E A \in {X \in SUBSET k_ring(c, 1) : Cardinality(X) <= MaxSources} :
           \E B \in SUBSET k_ring(c, 1) :
             grid = GridOf(k_ring(c, 1), A, B, settings.resolution)
    /\ df = NoTable
    /\ scored = NoTable
    /\ err = "none"
    /\ pc = "grid"
    /\ BfsIdle
    /\ KernelIdle
    /\ ExtIdle

NextField == AddDistanceColumns

SpecField == InitField /\ [][NextField]_vars

\* ------------------------------------------------------- cli.py, main
handler_continue(c, step) == [c EXCEPT !.failed = step]

\* lines 101-103 (and 45-47): report the error and sys.exit(1)
handler(c, step) ==
    [c EXCEPT !.pc = "exited", !.failed = step, !.exited = TRUE, !.status = 1]

\* a step of the pipeline starts
started(c, step) == [c EXCEPT !.log = Append(@, step)]

\* the polygons extract_rock_types returns for the two rock types, and the
\* --generate-map option
InitCli ==
    /\ \E res \in Resolutions : settings = SettingsAt(res)
    /\ grid = NoTable
    /\ df = NoTable
    /\ scored = NoTable
    /\ err = "none"
    /\ pc = "idle"
    /\ BfsIdle
    /\ KernelIdle
    /\ IndexIdle
    /\ LoopIdle
    /\ PairIdle
    /\ MoreIdle
    /\ \E gm \in BOOLEAN : \E rock_a \in Rocks : \E rock_b \in Rocks :
         cli = [NoCli EXCEPT !.pc = "start", !.generate_map = gm,
                             !.rock_a = rock_a, !.rock_b = rock_b]

\* lines 44-66: the input is read and both rock types are found
CliIngest ==
    /\ cli.pc = "start"
    /\ cli.rock_a # <<>> /\ cli.rock_b # <<>>
    /\ cli' = [cli EXCEPT !.pc = "ingested"]
    /\ UNCHANGED pipeVars
    /\ UNCHANGED bfsVars
    /\ UNCHANGED kernelVars
    /\ UNCHANGED <<cache, call, loop, run_b>>
    /\ UNCHANGED moreVars

\* lines 44-66: the input file is missing or unreadable, or
\* extract_rock_types finds no row for a rock type
CliIngestFails ==
    /\ cli.pc = "start"
    /\ cli' = handler(cli, "ingest")
    /\ \E e \in IF cli.rock_a = <<>> \/ cli.rock_b = <<>>
                THEN {"ValueError"} ELSE {"OSError"} : err' = e
    /\ UNCHANGED <<settings, grid, df, scored, pc>>
    /\ UNCHANGED bfsVars
    /\ UNCHANGED kernelVars
    /\ UNCHANGED <<cache, call, loop, run_b>>
    /\ UNCHANGED moreVars

\* line 70
CliBuildGrid ==
    /\ cli.pc = "ingested"
    /\ LET r == build_grid(cli.rock_a, cli.rock_b, NoBounds,
                           settings.resolution, cache)
       IN  /\ grid' = r.grid
           /\ cache' = r.files
    /\ cli' = [started(cli, "build_grid") EXCEPT !.pc = "grid"]
    /\ UNCHANGED <<settings, df, scored, err, pc>>
    /\ UNCHANGED bfsVars
    /\ UNCHANGED kernelVars
    /\ UNCHANGED <<call, loop, run_b>>
    /\ UNCHANGED moreVars

\* line 70: CACHE_DIR cannot be written
CliBuildGridFails ==
    /\ cli.pc = "ingested"
    /\ cli' = handler(started(cli, "build_grid"), "build_grid")
    /\ err' = "OSError"
    /\ UNCHANGED <<settings, grid, df, scored, pc>>
    /\ UNCHANGED bfsVars
    /\ UNCHANGED kernelVars
    /\ UNCHANGED <<cache, call, loop, run_b>>
    /\ UNCHANGED moreVars

\* line 75
CliAddDistanceColumns ==
    /\ cli.pc = "grid"
    /\ df' = add_distance_columns(grid)
    /\ cli' = [started(cli, "add_distance_columns") EXCEPT !.pc = "dist"]
    /\ UNCHANGED <<settings, grid, scored, err, pc>>
    /\ UNCHANGED bfsVars
    /\ UNCHANGED kernelVars
    /\ UNCHANGED <<cache, call, loop, run_b>>
    /\ UNCHANGED moreVars

\* line 79
CliComputeLikelihood ==
    /\ cli.pc = "dist"
    /\ HasDistances(df)
    /\ scored' = compute_likelihood(df, settings)
    /\ cli' = [started(cli, "compute_likelihood") EXCEPT !.pc = "scored"]
    /\ UNCHANGED <<settings, grid, df, err, pc>>
    /\ UNCHANGED bfsVars
    /\ UNCHANGED kernelVars
    /\ UNCHANGED <<cache, call, loop, run_b>>
    /\ UNCHANGED moreVars

\* line 79: df["dist_a"] does not exist
CliComputeLikelihoodKeyError ==
    /\ cli.pc = "dist"
    /\ ~HasDistances(df)
    /\ cli' = handler(started(cli, "compute_likelihood"), "compute_likelihood")
    /\ err' = "KeyError"
    /\ UNCHANGED <<settings, grid, df, scored, pc>>
    /\ UNCHANGED bfsVars
    /\ UNCHANGED kernelVars
    /\ UNCHANGED <<cache, call, loop, run_b>>
    /\ UNCHANGED moreVars

\* lines 83-89: convert and write the output
CliSave ==
    /\ cli.pc = "scored"
    /\ cli' = [started(cli, "save") EXCEPT !.pc = "saved"]
    /\ UNCHANGED pipeVars
    /\ UNCHANGED bfsVars
    /\ UNCHANGED kernelVars
    /\ UNCHANGED <<cache, call, loop, run_b>>
    /\ UNCHANGED moreVars

\* lines 83-89: the output cannot be written
CliSaveFails ==
    /\ cli.pc = "scored"
    /\ cli' = handler(started(cli, "save"), "save")
    /\ err' = "OSError"
    /\ UNCHANGED <<settings, grid, df, scored, pc>>
    /\ UNCHANGED bfsVars
    /\ UNCHANGED kernelVars
    /\ UNCHANGED <<cache, call, loop, run_b>>
    /\ UNCHANGED moreVars

\* lines 92-97
CliBuildMap ==
    /\ cli.pc = "saved"
    /\ cli.generate_map
    /\ cli' = [started(cli, "build_static_map") EXCEPT !.pc = "mapped"]
    /\ UNCHANGED pipeVars
    /\ UNCHANGED bfsVars
    /\ UNCHANGED kernelVars
    /\ UNCHANGED <<cache, call, loop, run_b>>
    /\ UNCHANGED moreVars

\* lines 92-97: the figure cannot be drawn or written
CliBuildMapFails ==
    /\ cli.pc = "saved"
    /\ cli.generate_map
    /\ cli' = handler(started(cli, "build_static_map"), "build_static_map")
    /\ err' = "OSError"
    /\ UNCHANGED <<settings, grid, df, scored, pc>>
    /\ UNCHANGED bfsVars
    /\ UNCHANGED kernelVars
    /\ UNCHANGED <<cache, call, loop, run_b>>
    /\ UNCHANGED moreVars

\* line 99 and the return of main
CliComplete ==
    /\ cli.pc = IF cli.generate_map THEN "mapped" ELSE "saved"
    /\ cli' = [cli EXCEPT !.pc = "exited", !.complete = TRUE,
                          !.exited = TRUE, !.status = 0]
    /\ UNCHANGED pipeVars
    /\ UNCHANGED bfsVars
    /\ UNCHANGED kernelVars
    /\ UNCHANGED <<cache, call, loop, run_b>>
    /\ UNCHANGED moreVars

NextCli ==
    \/ CliIngest
    \/ CliIngestFails
    \/ CliBuildGrid
    \/ CliBuildGridFails
    \/ CliAddDistanceColumns
    \/ CliComputeLikelihood
    \/ CliComputeLikelihoodKeyError
    \/ CliSave
    \/ CliSaveFails
    \/ CliBuildMap
    \/ CliBuildMapFails
    \/ CliComplete

SpecCli == InitCli /\ [][NextCli]_vars

\* ----------------- add_distance_columns, one search after the other
\* line 84: a step of hex_step_distances(sources_a, allowed_cells=grid_cells)
RunStepA == PairStepA

\* line 85: a step of hex_step_distances(sources_b, allowed_cells=grid_cells),
\* called when line 84 has returned
RunStepB ==
    /\ bpc = "done"
    /\ PairStepB

\* lines 88-99
RunAttach == PairAttach

NextRun ==
    \/ RunStepA
    \/ RunStepB
    \/ RunAttach

\* the grids and flags of InitPair, all of them non-empty
SpecRun == InitPair /\ [][NextRun]_vars

\* the interpreter goes on to the next statement as long as there is one
SpecRunFair == SpecRun /\ WF_vars(NextRun)

\* ------------------------- hex_step_distances, the appends to q recorded
RECURSIVE record(_, _, _, _)
\* the appends of the cells of the list cells to q: how often each cell has
\* been appended, where, and the distance written for it when it first was
record(enq, cells, dst, at) ==
    IF cells = <<>> THEN enq
    ELSE LET c == Head(cells)
             e == IF c \in DOMAIN enq
                  THEN [enq[c] EXCEPT !.n = @ + 1]
                  ELSE [n |-> 1, d |-> dst[c], at |-> at]
         IN  record((c :> e) @@ enq, Tail(cells), dst, at)

\* the part of the queue after, appended to the queue before
appended(before, after) == SubSeq(after, Len(before) + 1, Len(after))

\* the searches add_distance_columns starts: the sources are cells of a
\* non-empty grid G, no cell twice, and G limits the expansion
InitQueue ==
    /\ PipeIdle
    /\ KernelIdle
    /\ IndexIdle
    /\ LoopIdle
    /\ PairIdle
    /\ CliIdle
    /\ LegacyIdle
    /\ MemIdle
    /\ \E G \in CellSets \ {{}} :
         /\ allowed_cells = Some(G)
         /\ sources \in {s \in SourceLists : Range(s) \subseteq G}
    /\ dist = <<>>
    /\ q = <<>>
    /\ bpc = "call"
    /\ enqueued = <<>>

\* lines 35-36: q = deque(sources)
QueueSeed ==
    /\ bpc = "call"
    /\ dist' = seed(sources)
    /\ q' = sources
    /\ enqueued' = record(enqueued, sources, dist', "seed")
    /\ bpc' = "loop"
    /\ UNCHANGED <<sources, allowed_cells>>
    /\ UNCHANGED pipeVars
    /\ UNCHANGED kernelVars
    /\ UNCHANGED <<cache, call, loop, run_b, cli, legacy, mem>>

\* lines 38-46: one iteration of the while loop, with its q.append calls
QueuePop ==
    /\ bpc = "loop"
    /\ q # <<>>
    /\ LET s == bfs_step(dist, q, allowed_cells)
       IN  /\ dist' = s.dist
           /\ q' = s.q
           /\ enqueued' = record(enqueued, appended(Tail(q), s.q), s.dist, "visit")
    /\ UNCHANGED <<sources, allowed_cells, bpc>>
    /\ UNCHANGED pipeVars
    /\ UNCHANGED kernelVars
    /\ UNCHANGED <<cache, call, loop, run_b, cli, legacy, mem>>

NextQueue ==
    \/ QueueSeed
    \/ QueuePop
    \/ BfsReturn

SpecQueue == InitQueue /\ [][NextQueue]_vars

\* --------------------------------------------------- src/cli.py, main
blocked_both(parquet_exists, html_exists, overwrite) ==
    (parquet_exists /\ html_exists) /\ ~overwrite

\* line 35: (parquet_path.exists() or html_path.exists()) and not overwrite
blocked(parquet_exists, html_exists, overwrite) ==
    (parquet_exists \/ html_exists) /\ ~overwrite

\* lines 42-53: the steps of the workflow, in the order main calls them
LegacySteps ==
    <<"load_bedrock", "build_grid", "add_distance_columns",
      "compute_likelihood", "write_parquet", "build_map">>

\* the files a step writes: persist.py line 40, viz.py line 77
writes(step) ==
    CASE step = "write_parquet" -> {"parquet"}
      [] step = "build_map" -> {"html"}
      [] OTHER -> {}

\* the two options and the two output files, present or not
InitLegacy ==
    /\ PipeIdle
    /\ BfsIdle
    /\ KernelIdle
    /\ IndexIdle
    /\ LoopIdle
    /\ PairIdle
    /\ CliIdle
    /\ QueueIdle
    /\ MemIdle
    /\ \E ow \in BOOLEAN : \E sk \in BOOLEAN : \E pq \in BOOLEAN : \E ht \in BOOLEAN :
         legacy = [NoLegacy EXCEPT !.pc = "check", !.overwrite = ow,
                                   !.skip_existing = sk, !.parquet = pq,
                                   !.html = ht]

\* lines 36-38: outputs exist, --skip-existing: echo and return
LegacySkip ==
    /\ legacy.pc = "check"
    /\ blocked(legacy.parquet, legacy.html, legacy.overwrite)
    /\ legacy.skip_existing
    /\ legacy' = [legacy EXCEPT !.pc = "exited", !.outcome = "returned"]
    /\ UNCHANGED pipeVars
    /\ UNCHANGED bfsVars
    /\ UNCHANGED kernelVars
    /\ UNCHANGED <<cache, call, loop, run_b, cli, enqueued, mem>>

\* line 39: outputs exist, neither option: raise click.ClickException
LegacyRefuse ==
    /\ legacy.pc = "check"
    /\ blocked(legacy.parquet, legacy.html, legacy.overwrite)
    /\ ~legacy.skip_existing
    /\ legacy' = [legacy EXCEPT !.pc = "exited", !.outcome = "ClickException"]
    /\ UNCHANGED pipeVars
    /\ UNCHANGED bfsVars
    /\ UNCHANGED kernelVars
    /\ UNCHANGED <<cache, call, loop, run_b, cli, enqueued, mem>>

\* line 35 is false: go on to line 42
LegacyProceed ==
    /\ legacy.pc = "check"
    /\ ~blocked(legacy.parquet, legacy.html, legacy.overwrite)
    /\ legacy' = [legacy EXCEPT !.pc = "run"]
    /\ UNCHANGED pipeVars
    /\ UNCHANGED bfsVars
    /\ UNCHANGED kernelVars
    /\ UNCHANGED <<cache, call, loop, run_b, cli, enqueued, mem>>

\* lines 42-54: the next step of the workflow is called and returns
LegacyStep ==
    /\ legacy.pc = "run"
    /\ Len(legacy.log) < Len(LegacySteps)
    /\ LET step == LegacySteps[Len(legacy.log) + 1]
       IN  legacy' = [legacy EXCEPT !.log = Append(@, step),
                                    !.written = @ \cup writes(step)]
    /\ UNCHANGED pipeVars
    /\ UNCHANGED bfsVars
    /\ UNCHANGED kernelVars
    /\ UNCHANGED <<cache, call, loop, run_b, cli, enqueued, mem>>

\* lines 42-54: the next step is called and raises; main catches nothing, so
\* the exception ends the command; the file the step writes may be there
LegacyStepRaises ==
    /\ legacy.pc = "run"
    /\ Len(legacy.log) < Len(LegacySteps)
    /\ LET step == LegacySteps[Len(legacy.log) + 1]
       IN  \E w \in SUBSET writes(step) :
             legacy' = [legacy EXCEPT !.log = Append(@, step),
                                      !.written = @ \cup w,
                                      !.pc = "exited", !.outcome = "raised"]
    /\ UNCHANGED pipeVars
    /\ UNCHANGED bfsVars
    /\ UNCHANGED kernelVars
    /\ UNCHANGED <<cache, call, loop, run_b, cli, enqueued, mem>>

\* line 54: the last step has returned, main returns
LegacyReturn ==
    /\ legacy.pc = "run"
    /\ legacy.log = LegacySteps
    /\ legacy' = [legacy EXCEPT !.pc = "exited", !.outcome = "returned"]
    /\ UNCHANGED pipeVars
    /\ UNCHANGED bfsVars
    /\ UNCHANGED kernelVars
    /\ UNCHANGED <<cache, call, loop, run_b, cli, enqueued, mem>>

NextLegacy ==
    \/ LegacySkip
    \/ LegacyRefuse
    \/ LegacyProceed
    \/ LegacyStep
    \/ LegacyStepRaises
    \/ LegacyReturn

SpecLegacy == InitLegacy /\ [][NextLegacy]_vars

\* ------- add_distance_columns and compute_likelihood, the tables in memory
\* A DataFrame in memory: its table and its index.  mem.heap is the list of
\* the DataFrames allocated so far and a reference is a position in it.
RangeIndex(t) == [i \in 1 .. Len(t.rows) |-> i - 1]

Frame(t, index) == [t |-> t, index |-> index]

\* df = grid: the same DataFrame under another name
alias(heap, ref) == [heap |-> heap, ref |-> ref]

\* df.copy(): a new DataFrame with the same table and index
copy(heap, ref) == [heap |-> Append(heap, heap[ref]), ref |-> Len(heap) + 1]

\* df.set_index("h3_id", drop=False): a new DataFrame indexed by the cells
set_index(heap, ref) ==
    LET t == heap[ref].t
    IN  [heap |-> Append(heap, Frame(t, [i \in 1 .. Len(t.rows) |-> t.rows[i].h3_id])),
         ref |-> Len(heap) + 1]

\* df.reset_index(drop=True): a new DataFrame with the default index
reset_index(heap, ref) ==
    [heap |-> Append(heap, Frame(heap[ref].t, RangeIndex(heap[ref].t))),
     ref |-> Len(heap) + 1]

\* df[name] = values: the DataFrame itself gets the column, row by row
setitem(heap, ref, name, values) ==
    LET t == heap[ref].t
    IN  [heap EXCEPT ![ref].t =
           [t EXCEPT !.columns = IF name \in Range(@) THEN @ ELSE Append(@, name),
                     !.rows = [i \in 1 .. Len(t.rows) |->
                                 (name :> values[i]) @@ t.rows[i]]]]

\* df[[c1, c2, ...]]: a new DataFrame with the columns named, same index
getitem(heap, ref, names) ==
    LET t == heap[ref].t
    IN  [heap |-> Append(heap,
                    Frame([t EXCEPT !.columns = names,
                                    !.rows = [i \in 1 .. Len(t.rows) |->
                                                [c \in Range(names) |-> t.rows[i][c]]]],
                          heap[ref].index)),
         ref |-> Len(heap) + 1]

\* df.index[df[flag]].tolist()
labels(fr, flag) ==
    LET sel == SelectSeq([i \in 1 .. Len(fr.index) |-> i],
                         LAMBDA i : fr.t.rows[i][flag])
    IN  [k \in 1 .. Len(sel) |-> fr.index[sel[k]]]

\* the row lists of a grid: distinct cells in any order
RowOrders ==
    {s \in UNION {Lists(n) : n \in 0 .. MaxCells} :
        \A i, j \in 1 .. Len(s) : i # j => s[i] # s[j]}

\* the caller holds a grid, empty or not, and calls add_distance_columns
InitFrame ==
    /\ \E res \in Resolutions : settings = SettingsAt(res)
    /\ \E ids \in RowOrders : \E A \in SUBSET Range(ids) : \E B \in SUBSET Range(ids) :
         grid = [columns |-> GridColumns,
                 rows |-> [i \in 1 .. Len(ids) |->
                             [h3_id |-> ids[i],
                              intersects_a |-> ids[i] \in A,
                              intersects_b |-> ids[i] \in B]],
                 res |-> settings.resolution]
    /\ df = NoTable
    /\ scored = NoTable
    /\ err = "none"
    /\ pc = "grid"
    /\ BfsIdle
    /\ KernelIdle
    /\ IndexIdle
    /\ LoopIdle
    /\ PairIdle
    /\ CliIdle
    /\ QueueIdle
    /\ LegacyIdle
    /\ mem = [NoMem EXCEPT !.heap = <<Frame(grid, RangeIndex(grid))>>,
                           !.arg = 1, !.saved = grid, !.pc = "adc_call"]

\* distance.py line 68: df = grid.copy()
AdcCopy ==
    /\ mem.pc = "adc_call"
    /\ LET c == copy(mem.heap, mem.arg)
       IN  mem' = [mem EXCEPT !.heap = c.heap, !.df = c.ref, !.pc = "adc_copied"]
    /\ UNCHANGED pipeVars
    /\ UNCHANGED bfsVars
    /\ UNCHANGED kernelVars
    /\ UNCHANGED <<cache, call, loop, run_b, cli, enqueued, legacy>>

\* lines 71-73: the grid is empty, return the copy
AdcReturnEmpty ==
    /\ mem.pc = "adc_copied"
    /\ mem.heap[mem.df].t.rows = <<>>
    /\ mem' = [mem EXCEPT !.ret = mem.df, !.pc = "adc_returned"]
    /\ UNCHANGED pipeVars
    /\ UNCHANGED bfsVars
    /\ UNCHANGED kernelVars
    /\ UNCHANGED <<cache, call, loop, run_b, cli, enqueued, legacy>>

\* line 76: df = df.set_index("h3_id", drop=False)
AdcSetIndex ==
    /\ mem.pc = "adc_copied"
    /\ mem.heap[mem.df].t.rows # <<>>
    /\ LET c == set_index(mem.heap, mem.df)
       IN  mem' = [mem EXCEPT !.heap = c.heap, !.df = c.ref, !.pc = "adc_indexed"]
    /\ UNCHANGED pipeVars
    /\ UNCHANGED bfsVars
    /\ UNCHANGED kernelVars
    /\ UNCHANGED <<cache, call, loop, run_b, cli, enqueued, legacy>>

\* lines 79-94: the two searches and the two column assignments
AdcDistances ==
    /\ mem.pc = "adc_indexed"
    /\ LET fr == mem.heap[mem.df]
           sources_a == labels(fr, "intersects_a")
           sources_b == labels(fr, "intersects_b")
           grid_cells == Range(fr.index)
           steps_a == hex_step_distances(sources_a, Some(grid_cells))
           steps_b == hex_step_distances(sources_b, Some(grid_cells))
           step_m == step_metres(fr.t.res)
           dist_a == [i \in 1 .. Len(fr.index) |->
                        Metres(get(steps_a, fr.index[i], NaN), step_m)]
           dist_b == [i \in 1 .. Len(fr.index) |->
                        Metres(get(steps_b, fr.index[i], NaN), step_m)]
           h1 == setitem(mem.heap, mem.df, "dist_a", dist_a)
           h2 == setitem(h1, mem.df, "dist_b", dist_b)
       IN  mem' = [mem EXCEPT !.heap = h2, !.pc = "adc_attached"]
    /\ UNCHANGED pipeVars
    /\ UNCHANGED bfsVars
    /\ UNCHANGED kernelVars
    /\ UNCHANGED <<cache, call, loop, run_b, cli, enqueued, legacy>>

\* lines 97-99: df = df.reset_index(drop=True); return df
AdcResetIndex ==
    /\ mem.pc = "adc_attached"
    /\ LET c == reset_index(mem.heap, mem.df)
       IN  mem' = [mem EXCEPT !.heap = c.heap, !.df = c.ref, !.ret = c.ref,
                              !.pc = "adc_returned"]
    /\ UNCHANGED pipeVars
    /\ UNCHANGED bfsVars
    /\ UNCHANGED kernelVars
    /\ UNCHANGED <<cache, call, loop, run_b, cli, enqueued, legacy>>

\* the caller passes the table it got to compute_likelihood: the parameter
\* df refers to the caller's table
ClCall ==
    /\ mem.pc = "adc_returned"
    /\ mem' = [mem EXCEPT !.arg = mem.ret, !.df = mem.ret, !.ret = 0,
                          !.saved = mem.heap[mem.ret].t, !.pc = "cl_call"]
    /\ UNCHANGED pipeVars
    /\ UNCHANGED bfsVars
    /\ UNCHANGED kernelVars
    /\ UNCHANGED <<cache, call, loop, run_b, cli, enqueued, legacy>>

\* score.py lines 64-65: df["dist_a"] on a table without the column
ClKeyError ==
    /\ mem.pc = "cl_call"
    /\ ~HasDistances(mem.heap[mem.df].t)
    /\ mem' = [mem EXCEPT !.pc = "cl_raised"]
    /\ UNCHANGED pipeVars
    /\ UNCHANGED bfsVars
    /\ UNCHANGED kernelVars
    /\ UNCHANGED <<cache, call, loop, run_b, cli, enqueued, legacy>>

\* lines 64-69: the two score arrays are new arrays; df = df.copy()
ClCopy ==
    /\ mem.pc = "cl_call"
    /\ HasDistances(mem.heap[mem.df].t)
    /\ LET c == copy(mem.heap, mem.df)
       IN  mem' = [mem EXCEPT !.heap = c.heap, !.df = c.ref, !.pc = "cl_copied"]
    /\ UNCHANGED pipeVars
    /\ UNCHANGED bfsVars
    /\ UNCHANGED kernelVars
    /\ UNCHANGED <<cache, call, loop, run_b, cli, enqueued, legacy>>

\* line 70: df["score"] = score_a * score_b
ClSetScore ==
    /\ mem.pc = "cl_copied"
    /\ LET rows == mem.heap[mem.df].t.rows
           d0_m == settings.falloff_km * 1000
           score == [i \in 1 .. Len(rows) |->
                       FMul(gaussian(rows[i].dist_a, d0_m, settings.alpha),
                            gaussian(rows[i].dist_b, d0_m, settings.alpha))]
       IN  mem' = [mem EXCEPT !.heap = setitem(mem.heap, mem.df, "score", score),
                              !.pc = "cl_scored"]
    /\ UNCHANGED pipeVars
    /\ UNCHANGED bfsVars
    /\ UNCHANGED kernelVars
    /\ UNCHANGED <<cache, call, loop, run_b, cli, enqueued, legacy>>

\* line 72: return df[["h3_id", "score", "intersects_a", "intersects_b"]]
ClSelect ==
    /\ mem.pc = "cl_scored"
    /\ LET c == getitem(mem.heap, mem.df,
                        <<"h3_id", "score", "intersects_a", "intersects_b">>)
       IN  mem' = [mem EXCEPT !.heap = c.heap, !.ret = c.ref, !.pc = "cl_returned"]
    /\ UNCHANGED pipeVars
    /\ UNCHANGED bfsVars
    /\ UNCHANGED kernelVars
    /\ UNCHANGED <<cache, call, loop, run_b, cli, enqueued, legacy>>

NextFrame ==
    \/ AdcCopy
    \/ AdcReturnEmpty
    \/ AdcSetIndex
    \/ AdcDistances
    \/ AdcResetIndex
    \/ ClCall
    \/ ClKeyError
    \/ ClCopy
    \/ ClSetScore
    \/ ClSelect

SpecFrame == InitFrame /\ [][NextFrame]_vars

\* ------------------------------------------------ reference definitions
RECURSIVE Ball(_, _, _)
\* the cells at most n hops from S, a hop joining two adjacent cells of G
Ball(S, G, n) ==
    IF n = 0 THEN S
    ELSE LET B == Ball(S, G, n - 1)
         IN  B \cup {c \in G : \E b \in B \cap G : HexDist(b, c) = 1}

\* the cells that some path inside G joins to a cell of S
Closure(S, G) == Ball(S, G, Cardinality(G))

\* the length of the shortest path inside G from S to c, for c in Closure(S, G)
RefDist(S, G, c) ==
    CHOOSE n \in 0 .. Cardinality(G) :
        c \in Ball(S, G, n) /\ (n = 0 \/ c \notin Ball(S, G, n - 1))

GridCells == {grid.rows[i].h3_id : i \in 1 .. Len(grid.rows)}
SourcesA == {grid.rows[i].h3_id : i \in {j \in 1 .. Len(grid.rows) : grid.rows[j].intersects_a}}
SourcesB == {grid.rows[i].h3_id : i \in {j \in 1 .. Len(grid.rows) : grid.rows[j].intersects_b}}

\* add_distance_columns has returned the distances of a non-empty grid
Distanced == pc \in {"dist", "scored"} /\ grid.rows # <<>>

\* --------------------------------------------------------------- claims

\* C1: when hex_step_distances(S, allowed_cells=G) returns for a source list
\* S drawn from G, every cell of the returned map is joined to a source by a
\* path inside G and its recorded value is the length of the shortest such
\* path.
C1_ShortestPath ==
    (bpc = "done" /\ allowed_cells.given /\ Range(sources) \subseteq allowed_cells.cells)
      => \A c \in DOMAIN dist :
            /\ c \in Closure(Range(sources), allowed_cells.cells)
            /\ dist[c] = RefDist(Range(sources), allowed_cells.cells, c)

\* C1 witness: a finished search from two sources in which some cell lies
\* farther from the nearest source inside G than in the unrestricted tiling.
C1_Witness ==
    /\ bpc = "done" /\ allowed_cells.given
    /\ Range(sources) \subseteq allowed_cells.cells
    /\ Len(sources) = 2
    /\ \E c \in DOMAIN dist :
          /\ dist[c] >= 2
          /\ \E s0 \in Range(sources) : HexDist(s0, c) < dist[c]

\* C2: after add_distance_columns on a non-empty grid every cell flagged
\* intersects_a has dist_a = 0 and every cell flagged intersects_b has
\* dist_b = 0.
C2_SourcesAtZero ==
    Distanced =>
      \A i \in 1 .. Len(df.rows) :
         /\ df.rows[i].intersects_a => df.rows[i].dist_a = 0
         /\ df.rows[i].intersects_b => df.rows[i].dist_b = 0

\* C2 witness: a distanced grid with a source of A, a source of B and a cell
\* at a positive distance from A.
C2_Witness ==
    /\ Distanced
    /\ \E i, j, k \in 1 .. Len(df.rows) :
          /\ df.rows[i].intersects_a /\ df.rows[i].dist_a = 0
          /\ df.rows[j].intersects_b /\ df.rows[j].dist_b = 0
          /\ df.rows[k].dist_a > 0

\* C3 (as claimed): whenever allowed_cells is supplied, the empty set
\* included, every cell at distance 1 or more is a member of it.
C3_NeverLeavesAllowed ==
    (bpc = "done" /\ allowed_cells.given)
      => \A c \in DOMAIN dist : dist[c] >= 1 => c \in allowed_cells.cells

\* C4: on a non-empty grid without a source for a rock type,
\* add_distance_columns returns normally and that rock type's distance is
\* NaN for every cell (neither 0 nor any other number).
C4_NoSourceAllNaN ==
    Distanced =>
      /\ pc = "dist" => err = "none"
      /\ Len(df.rows) = Len(grid.rows)
      /\ SourcesA = {} => \A i \in 1 .. Len(df.rows) : IsNaN(df.rows[i].dist_a)
      /\ SourcesB = {} => \A i \in 1 .. Len(df.rows) : IsNaN(df.rows[i].dist_b)

\* C4 witness: a distanced grid of several cells with sources of A and none of B.
C4_Witness ==
    /\ pc = "dist" /\ err = "none"
    /\ Len(df.rows) >= 2
    /\ SourcesB = {} /\ SourcesA # {}
    /\ \A i \in 1 .. Len(df.rows) : IsNaN(df.rows[i].dist_b)

\* C5 (as claimed): every cell whose dist_a or dist_b is undefined gets
\* score = 0.
C5_UndefinedScoresZero ==
    pc = "scored" =>
      \A i \in 1 .. Len(scored.rows) :
         (IsNaN(df.rows[i].dist_a) \/ IsNaN(df.rows[i].dist_b))
            => scored.rows[i].score = 0

\* C6: after add_distance_columns on a non-empty grid a cell's distance to a
\* rock type is defined exactly when a path inside the grid joins the cell to
\* a source of that rock type; the call returns normally.
C6_UnreachableStaysNaN ==
    Distanced =>
      /\ pc = "dist" => err = "none"
      /\ \A i \in 1 .. Len(df.rows) :
            /\ ~IsNaN(df.rows[i].dist_a)
                 <=> df.rows[i].h3_id \in Closure(SourcesA, GridCells)
            /\ ~IsNaN(df.rows[i].dist_b)
                 <=> df.rows[i].h3_id \in Closure(SourcesB, GridCells)

\* C6 witness: a disconnected grid with a source of A, a cell reached from it
\* at a positive distance and a cell no path joins to it.
C6_Witness ==
    /\ pc = "dist" /\ err = "none"
    /\ SourcesA # {}
    /\ \E i, j \in 1 .. Len(df.rows) :
          /\ IsNaN(df.rows[i].dist_a)
          /\ df.rows[j].dist_a > 0

\* C7 (as claimed): for every grid, grids with undefined distances included,
\* every score is a number in [0,1].
C7_ScoreInUnitInterval ==
    pc = "scored" =>
      \A i \in 1 .. Len(scored.rows) :
         /\ ~IsNaN(scored.rows[i].score)
         /\ 0 <= scored.rows[i].score /\ scored.rows[i].score <= One

\* (d / d0) ** alpha <= 2 ** -54 for the configured d0 and alpha
Negligible(d, cfg) == d <= (cfg.falloff_km * 1000) \div UlpRoot(cfg.alpha)

\* C8 (as claimed): score = 1 if and only if dist_a = 0 and dist_b = 0.
C8_ScoreOneIffBothZero ==
    pc = "scored" =>
      \A i \in 1 .. Len(scored.rows) :
         scored.rows[i].score = One
            <=> (df.rows[i].dist_a = 0 /\ df.rows[i].dist_b = 0)

\* C8 (amended): a cell with dist_a = 0 and dist_b = 0 scores 1, and a cell
\* scores 1 exactly when both its distances are defined and so small against
\* d0 that (d / d0) ** alpha <= 2 ** -54, where exp rounds to 1.0; a cell
\* with an undefined distance never scores 1.
C8_ScoreOneIffBothNegligible ==
    pc = "scored" =>
      \A i \in 1 .. Len(scored.rows) :
         /\ (df.rows[i].dist_a = 0 /\ df.rows[i].dist_b = 0)
               => scored.rows[i].score = One
         /\ scored.rows[i].score = One
               <=> /\ ~IsNaN(df.rows[i].dist_a) /\ ~IsNaN(df.rows[i].dist_b)
                   /\ Negligible(df.rows[i].dist_a, settings)
                   /\ Negligible(df.rows[i].dist_b, settings)

\* C8 witness: a scored cell at a positive distance from rock type A whose
\* score is 1.
C8_Witness ==
    /\ pc = "scored"
    /\ \E i \in 1 .. Len(scored.rows) :
          /\ scored.rows[i].score = One
          /\ df.rows[i].dist_a > 0
          /\ df.rows[i].dist_b = 0

\* the nearest fixed point number to sqrt(a * b)
IsSqrtOfProduct(r, a, b) ==
    /\ r >= 0
    /\ (r = 0 \/ (2 * r - 1) * (2 * r - 1) <= 4 * a * b)
    /\ 4 * a * b < (2 * r + 1) * (2 * r + 1)

\* C9 (as claimed): the score is the weighted geometric mean
\* mu_a^w * mu_b^(1-w) of the two memberships: mu_a at w = 1, mu_b at w = 0,
\* sqrt(mu_a * mu_b) at w = 0.5.
C9_WeightedGeometricMean ==
    pc = "scored" =>
      \A i \in 1 .. Len(scored.rows) :
         LET d0_m == settings.falloff_km * 1000
             mu_a == gaussian(df.rows[i].dist_a, d0_m, settings.alpha)
             mu_b == gaussian(df.rows[i].dist_b, d0_m, settings.alpha)
             w == settings.weight_a
         IN  (~IsNaN(mu_a) /\ ~IsNaN(mu_b)) =>
               /\ w = One => scored.rows[i].score = mu_a
               /\ w = 0 => scored.rows[i].score = mu_b
               /\ w = One \div 2 => IsSqrtOfProduct(scored.rows[i].score, mu_a, mu_b)

\* C10: for every positive d0, gaussian(0, d0) = 1 and linear(0, d0) = 1;
\* linear(d, d0) = 0 for every d >= d0; linear never increases with d and
\* its values lie in [0,1].
C10_KernelBoundaryValues ==
    ~IsNaN(kernel_out.g1) =>
      /\ kernel_in.d1 = 0 => (kernel_out.g1 = One /\ kernel_out.l1 = One)
      /\ kernel_in.d1 >= kernel_in.d0_m => kernel_out.l1 = 0
      /\ kernel_in.d1 <= kernel_in.d2 => kernel_out.l1 >= kernel_out.l2
      /\ 0 <= kernel_out.l1 /\ kernel_out.l1 <= One

\* C10 witness: a call with d1 < d0 < d2 returning 0 < linear(d1) < 1 and
\* linear(d2) = 0.
C10_Witness ==
    /\ ~IsNaN(kernel_out.g1)
    /\ 0 < kernel_in.d1 /\ kernel_in.d1 < kernel_in.d0_m
    /\ kernel_in.d0_m < kernel_in.d2
    /\ 0 < kernel_out.l1 /\ kernel_out.l1 < One
    /\ kernel_out.l2 = 0

\* C11 (as claimed): the columns of the table compute_likelihood returns are
\* h3_id, intersects_a, intersects_b, score, in that order.
C11_ColumnsInOrder ==
    pc = "scored" =>
      scored.columns = <<"h3_id", "intersects_a", "intersects_b", "score">>

\* C12 (as claimed): whatever calls came before, polys_to_h3 returns the
\* cell set an uncached computation returns for the call's own polygon set
\* and resolution.
C12_CacheNeverChangesResult ==
    call.op = "polys_to_h3" =>
      Range(call.series) = Range(compute_cells(call.gdf, call.res))

\* a bounding region of zero area
Degenerate(box) == box.e <= box.w \/ box.n <= box.s

\* C13 (as claimed): build_grid on a bounding region of zero area, derived
\* from the extents or passed as bounds, fails with a configuration error.
C13_DegenerateRegionFails ==
    (call.op = "build_grid"
       /\ Degenerate(region(call.gdf, call.rock_b, call.bounds)))
      => err = "ConfigurationError"

\* the cells of the valid polygons of a set
ValidCells(gdf, res) ==
    UNION {UNION {polyfill_geojson(gdf[i].geoms[j], res) :
                    j \in 1 .. Len(gdf[i].geoms)} :
             i \in {k \in 1 .. Len(gdf) : gdf[k].is_valid}}

\* C14 (as claimed): in the grid build_grid returns the cell identifiers
\* are unique, intersects_a (intersects_b) is true exactly for the cells of
\* polygon set A (B), and an empty polygon set flags no cell
\* (C14_FlagsAreMembership, below, for every call of build_grid).
FlagsAreMembership ==
      /\ \A i, j \in 1 .. Len(grid.rows) :
            i # j => grid.rows[i].h3_id # grid.rows[j].h3_id
      /\ \A i \in 1 .. Len(grid.rows) :
            /\ grid.rows[i].intersects_a
                 <=> grid.rows[i].h3_id \in ValidCells(call.gdf, call.res)
            /\ grid.rows[i].intersects_b
                 <=> grid.rows[i].h3_id \in ValidCells(call.rock_b, call.res)
      /\ call.gdf = <<>> => \A i \in 1 .. Len(grid.rows) : ~grid.rows[i].intersects_a
      /\ call.rock_b = <<>> => \A i \in 1 .. Len(grid.rows) : ~grid.rows[i].intersects_b

C14_FlagsAreMembership == call.op = "build_grid" => FlagsAreMembership

\* build_grid in a directory without cache files flags the cells as claimed
FlagsAreMembershipWithoutCache ==
    (call.op = "build_grid" /\ call.n = 1) => FlagsAreMembership

\* C15 (as claimed): on an empty grid add_distance_columns returns an empty
\* table without raising and compute_likelihood on that table returns an
\* empty scored table without raising.
C15_EmptyGridCompletes ==
    grid.rows = <<>> =>
      /\ err = "none" /\ pc # "failed"
      /\ pc = "dist" => df.rows = <<>>
      /\ pc = "scored" => scored.rows = <<>>

\* C16: whatever the order of the source list and whatever the order in
\* which the neighbours of each cell are enumerated, hex_step_distances on a
\* grid returns the map of the run that lists the sources and the neighbours
\* in ascending order: any two runs on the same grid agree on every cell.
C16_Deterministic ==
    bpc = "done" =>
      dist = hex_step_distances(SetToSeq(Range(sources)), allowed_cells)

\* C16 witness: a finished search whose two sources were listed in
\* descending order, whose neighbours were not enumerated in ascending order
\* and which reached a cell beyond the sources.
C16_Witness ==
    /\ bpc = "done"
    /\ Len(sources) = 2 /\ sources[1] > sources[2]
    /\ loop.reordered
    /\ \E c \in DOMAIN dist : dist[c] >= 1

\* C17: however the steps of the searches for rock types A and B are
\* interleaved, B before A included, each search returns the map of its own
\* sequential run and the attached dist_a and dist_b are those of the
\* sequential add_distance_columns.
C17_SearchesIndependent ==
    /\ bpc = "done" => dist = hex_step_distances(sources, allowed_cells)
    /\ run_b.bpc = "done"
         => run_b.dist = hex_step_distances(run_b.sources, allowed_cells)
    /\ pc = "dist" => df = add_distance_columns(grid)

\* C17 witness: columns attached after the two searches stepped while the
\* other was inside its loop, with cells at a positive distance from each
\* rock type.
C17_Witness ==
    /\ pc = "dist"
    /\ run_b.interleaved
    /\ \E i, j \in 1 .. Len(df.rows) :
          /\ df.rows[i].dist_a > 0
          /\ df.rows[j].dist_b > 0

\* the grid is a cell c with its six neighbours, c the only source of A and
\* the six neighbours the sources of B
SevenCells(c) ==
    /\ GridCells = k_ring(c, 1)
    /\ SourcesA = {c}
    /\ SourcesB = k_ring(c, 1) \ {c}

\* C18: every defined dist_a and dist_b is the cell's step count times one
\* step_m, the same for all cells: the edge length at the grid's resolution
\* times sqrt(3); on a cell with its six neighbours, the cell the only A
\* source and the neighbours the B sources, the cell has dist_a = 0 and
\* dist_b = step_m and each neighbour has dist_a = step_m and dist_b = 0.
C18_StepsTimesSpacing ==
    (pc = "dist" /\ grid.rows # <<>>) =>
      LET reached_a == Closure(SourcesA, GridCells)
          reached_b == Closure(SourcesB, GridCells)
          floor_m == (Sqrt3Milli * edge_length(grid.res)) \div 1000
      IN  \E step_m \in {floor_m, floor_m + 1} :
             /\ Abs(1000 * step_m - Sqrt3Milli * edge_length(grid.res)) <= 500
             /\ \A i \in 1 .. Len(df.rows) :
                   LET h == df.rows[i].h3_id IN
                   /\ h \in reached_a
                        => df.rows[i].dist_a = RefDist(SourcesA, GridCells, h) * step_m
                   /\ h \in reached_b
                        => df.rows[i].dist_b = RefDist(SourcesB, GridCells, h) * step_m
             /\ \A c \in Centres :
                   SevenCells(c) =>
                     \A i \in 1 .. Len(df.rows) :
                        /\ df.rows[i].dist_a = (IF df.rows[i].h3_id = c THEN 0 ELSE step_m)
                        /\ df.rows[i].dist_b = (IF df.rows[i].h3_id = c THEN step_m ELSE 0)

\* C18 witness: the distances of a cell with its six neighbours, the cell
\* the only A source and the neighbours the B sources.
C18_Witness ==
    /\ pc = "dist"
    /\ Len(df.rows) = 7
    /\ \E c \in Centres :
          /\ SevenCells(c)
          /\ \E i, j \in 1 .. Len(df.rows) :
                /\ df.rows[i].h3_id = c /\ df.rows[i].dist_b > 0
                /\ df.rows[j].h3_id # c /\ df.rows[j].dist_a > 0

\* C19 (as claimed): polys_to_h3 returns, without raising and without
\* duplicates, exactly the cells of the valid polygons of the set
\* (C19_InvalidSkipped, below, for every call of polys_to_h3).
InvalidSkipped ==
      /\ err = "none"
      /\ \A i, j \in 1 .. Len(call.series) :
            i # j => call.series[i] # call.series[j]
      /\ Range(call.series) = ValidCells(call.gdf, call.res)

C19_InvalidSkipped == call.op = "polys_to_h3" => InvalidSkipped

\* polys_to_h3 in a directory without cache files skips the invalid
\* geometries as claimed
InvalidSkippedWithoutCache ==
    (call.op = "polys_to_h3" /\ call.n = 1) => InvalidSkipped

\* the steps of the pipeline, in order
Steps(generate_map) ==
    <<"build_grid", "add_distance_columns", "compute_likelihood", "save">>
      \o (IF generate_map THEN <<"build_static_map">> ELSE <<>>)

IsPrefix(s, t) == Len(s) <= Len(t) /\ \A i \in 1 .. Len(s) : s[i] = t[i]

\* the steps started so far are the first steps of the pipeline, each with
\* the result of the step before it; a failure ends the run with status 1
\* and without the completion message
FailFast ==
    /\ IsPrefix(cli.log, Steps(cli.generate_map))
    /\ "add_distance_columns" \in Range(cli.log) => grid # NoTable
    /\ ("compute_likelihood" \in Range(cli.log) /\ cli.failed # "compute_likelihood")
         => (df # NoTable /\ scored # NoTable)
    /\ "build_static_map" \in Range(cli.log) => cli.generate_map
    /\ cli.failed # "none" =>
         /\ cli.exited /\ cli.status = 1 /\ ~cli.complete
         /\ cli.failed = "ingest" => cli.log = <<>>
         /\ cli.failed # "ingest"
              => (cli.log # <<>> /\ cli.log[Len(cli.log)] = cli.failed)
    /\ err # "none" => cli.failed # "none"
    /\ cli.complete =>
         /\ cli.failed = "none" /\ cli.status = 0
         /\ cli.log = Steps(cli.generate_map)

\* C20: main runs build_grid, add_distance_columns, compute_likelihood, the
\* save and, only when generate_map is true, the map, in this order and each
\* after the one before has returned; when a step raises no later step
\* runs, the completion message is not emitted and the exit status is 1;
\* nothing runs after the exit.
C20_SequentialFailFast ==
    /\ []FailFast
    /\ [][cli.exited => cli' = cli]_vars
    /\ [][cli'.log # cli.log => cli'.log = Append(cli.log, Steps(cli.generate_map)[Len(cli.log) + 1])]_vars

\* C20 witness: a run with generate_map true whose save raised: four steps
\* started, no map, no completion message, exit status 1.
C20_Witness ==
    /\ cli.generate_map
    /\ cli.failed = "save"
    /\ cli.log = <<"build_grid", "add_distance_columns", "compute_likelihood", "save">>
    /\ cli.exited /\ cli.status = 1 /\ ~cli.complete

\* C21: in a search started from the source list of a grid, every cell with
\* a distance has been appended to the queue exactly once, the sources when
\* the queue was seeded and every other cell when it was first visited, and
\* its distance is still the one written at that moment
C21_EnqueuedOnce ==
    bpc \in {"loop", "done"} =>
      /\ DOMAIN enqueued = DOMAIN dist
      /\ \A c \in DOMAIN dist :
           /\ enqueued[c].n = 1
           /\ enqueued[c].d = dist[c]
           /\ enqueued[c].at = (IF c \in Range(sources) THEN "seed" ELSE "visit")
      /\ Range(q) \subseteq DOMAIN dist

\* a finished search in which a cell that is no source neighbours two cells
\* one step nearer, each of which met it when popped
C21_Witness ==
    /\ bpc = "done"
    /\ enqueued # <<>>
    /\ \E c \in DOMAIN dist \ Range(sources) :
         Cardinality({n \in k_ring(c, 1) \cap DOMAIN dist :
                         dist[n] = dist[c] - 1}) >= 2

\* the queue holds its cells in non-decreasing order of recorded distance
QueueSorted ==
    bpc \in {"loop", "for"} =>
      \A i, j \in 1 .. Len(q) : i < j => dist[q[i]] <= dist[q[j]]

\* the cell q.popleft() returns is the head of the queue and is no nearer
\* than the cell popped before it
PopOrder ==
    (bpc = "loop" /\ bpc' = "for") =>
      /\ loop'.h = Head(q)
      /\ loop'.d = dist[loop'.h]
      /\ loop'.d >= loop.d

\* C22: during hex_step_distances the queue is sorted by recorded distance
\* at every step, and each cell popped is no nearer than the cell popped
\* just before it, hence than any cell popped earlier
C22_PoppedInDistanceOrder == []QueueSorted /\ [][PopOrder]_vars

\* a cell one step from a source has been popped after that source, while
\* the queue still holds a cell
C22_Witness ==
    /\ bpc = "for"
    /\ loop.d = 1
    /\ q # <<>>
    /\ \E c \in Range(sources) : c \in k_ring(loop.h, 1)

\* a search returns only with its queue empty and with every cell of the
\* grid next to a reached cell reached too
Exhausted(r) ==
    r.bpc = "done" =>
      /\ r.q = <<>>
      /\ \A h \in DOMAIN r.dist :
           (k_ring(h, 1) \cap allowed_cells.cells) \subseteq DOMAIN r.dist

\* the table returned has the two distance columns and a row for every cell
\* of the grid
CoversGrid ==
    pc = "dist" =>
      /\ HasDistances(df)
      /\ Len(df.rows) = Len(grid.rows)
      /\ \A i \in 1 .. Len(grid.rows) :
           /\ df.rows[i].h3_id = grid.rows[i].h3_id
           /\ {"dist_a", "dist_b"} \subseteq DOMAIN df.rows[i]

\* C23: on every non-empty grid with any flags, each of the two searches of
\* add_distance_columns eventually returns with its queue empty, not before
\* it has exhausted the cells it can reach, and the operation eventually
\* returns a table covering every cell of the grid
C23_SearchTerminates ==
    /\ <>(bpc = "done" /\ q = <<>>)
    /\ <>(run_b.bpc = "done" /\ run_b.q = <<>>)
    /\ <>(pc = "dist")
    /\ [](Exhausted(run_a) /\ Exhausted(run_b) /\ CoversGrid)

\* the operation has returned on a grid of three cells where the search for
\* rock type A reached a cell off its sources and the search for rock type
\* B had no source
C23_Witness ==
    /\ pc = "dist"
    /\ Len(grid.rows) >= 3
    /\ \E i \in 1 .. Len(df.rows) : df.rows[i].dist_a > 0
    /\ \E i \in 1 .. Len(df.rows) : IsNaN(df.rows[i].dist_b)

\* an output file was there when the command started and --overwrite is off
OutputsInTheWay == (legacy.parquet \/ legacy.html) /\ ~legacy.overwrite

\* C24: in the legacy command, with an output file present and --overwrite
\* off, no step is called and nothing is written, and the command returns
\* normally under --skip-existing and fails with a ClickException otherwise;
\* with --overwrite on or neither file present, whatever --skip-existing is,
\* the steps are called in order, the first one always, and the command
\* returns only after all six, with both files written
C24_ExistingOutputsGuard ==
    /\ OutputsInTheWay =>
         /\ legacy.log = <<>>
         /\ legacy.written = {}
         /\ legacy.pc \in {"idle", "check", "exited"}
         /\ legacy.pc = "exited" =>
              legacy.outcome = (IF legacy.skip_existing THEN "returned"
                                ELSE "ClickException")
    /\ ~OutputsInTheWay =>
         /\ IsPrefix(legacy.log, LegacySteps)
         /\ legacy.pc = "exited" =>
              /\ legacy.log # <<>>
              /\ legacy.outcome \in {"returned", "raised"}
              /\ legacy.outcome = "returned" =>
                   /\ legacy.log = LegacySteps
                   /\ legacy.written = {"parquet", "html"}

\* only the HTML file was there, --skip-existing was given: the command has
\* returned without calling a step
C24_Witness ==
    /\ legacy.pc = "exited"
    /\ legacy.html /\ ~legacy.parquet
    /\ ~legacy.overwrite /\ legacy.skip_existing
    /\ legacy.outcome = "returned"
    /\ legacy.log = <<>>

\* the table the caller passed in, and the grid it still holds, are as they
\* were when the call was made
NotMutated ==
    mem.pc # "idle" =>
      /\ mem.heap[mem.arg].t = mem.saved
      /\ mem.heap[1] = Frame(grid, RangeIndex(grid))

\* the table out has a row for every row of the table in, in the same
\* order, with the same cell and the same flags
RowsKept(out, in) ==
    /\ Len(out.rows) = Len(in.rows)
    /\ \A i \in 1 .. Len(in.rows) :
         /\ out.rows[i].h3_id = in.rows[i].h3_id
         /\ out.rows[i].intersects_a = in.rows[i].intersects_a
         /\ out.rows[i].intersects_b = in.rows[i].intersects_b

ReturnsRowsKept ==
    /\ mem.pc \in {"adc_returned", "cl_returned"} =>
         RowsKept(mem.heap[mem.ret].t, mem.saved)
    /\ mem.pc = "cl_returned" => RowsKept(mem.heap[mem.ret].t, grid)

\* C25: add_distance_columns and compute_likelihood leave the table passed
\* in as it was, and each returns a table with one row per input row, in
\* the same order, with the cell and the two flags of every row unchanged
C25_FramePreserved ==
    /\ NotMutated
    /\ ReturnsRowsKept
    /\ mem.pc # "cl_raised"

\* the same with a table that has the distance columns: every call that
\* returns keeps the rows, and no call, returning or raising, changes the
\* table passed in
FramePreservedWhereReturned ==
    /\ NotMutated
    /\ ReturnsRowsKept
    /\ mem.pc = "cl_raised" => grid.rows = <<>>

====
